---------------------------- MODULE Spec2Model ----------------------------
(***************************************************************************)
(* LegisQ: the record store (SQLite tables ministries, states, bills,      *)
(* questions, current_affairs), the admin forms that write it and the      *)
(* fetch functions that read it.                                           *)
(*                                                                         *)
(* Text is a sequence of characters, each character a one-token string,    *)
(* so that formatting (f-strings), case conversion and LIKE matching are   *)
(* computed character by character.  SQL NULL / Python None is NULL, a      *)
(* one-token text that no input can spell; the placeholder option of a     *)
(* selectbox is a one-token text as well.                                  *)
(***************************************************************************)
EXTENDS Integers, Sequences, FiniteSets, TLC

VARIABLES ministries, states, bills, questions, affairs, nextId, files,
          pc, req, outcome, view, conn, session_state

dbVars   == <<ministries, states, bills, questions, affairs, nextId>>
sessVars == <<pc, req, outcome>>
vars     == <<ministries, states, bills, questions, affairs, nextId, files,
              pc, req, outcome, view, conn, session_state>>

\* ------------------------------------------------------------------ bounds
\* Browser sessions (script runs may interleave between two sessions).
NumSessions == 2
\* Rows that may ever be inserted into bills + questions + current_affairs.
MaxRows == 2
\* Rows that may be inserted into ministries + states.
MaxMeta == 2

Sessions == 1..NumSessions

NULL == <<"NULL">>
NoReq == [op |-> "none"]
\* outcome: the banner of the script run that ended last (st.success or
\* st.error) and the number of INSERT statements that run executed.
NoOutcome == [result |-> "none", inserts |-> 0]

\* ------------------------------------------------------------------- text
UpperChars == {"A", "B", "F", "H", "K", "L", "N", "Q", "Eacute"}
LowerOf == [c \in UpperChars |->
              CASE c = "A" -> "a" [] c = "B" -> "b" [] c = "F" -> "f"
                [] c = "H" -> "h" [] c = "K" -> "k" [] c = "L" -> "l"
                [] c = "N" -> "n" [] c = "Q" -> "q" [] c = "Eacute" -> "eacute"]
AsciiUpperChars == UpperChars \ {"Eacute"}

\* str.lower(): Unicode-aware.
PyLowerChar(c) == IF c \in UpperChars THEN LowerOf[c] ELSE c
\* str.upper(): Unicode-aware.
PyUpperChar(c) == IF \E u \in UpperChars : LowerOf[u] = c
                  THEN CHOOSE u \in UpperChars : LowerOf[u] = c
                  ELSE c
\* SQLite LOWER() and the case folding of LIKE: ASCII letters only.
SqlLowerChar(c) == IF c \in AsciiUpperChars THEN LowerOf[c] ELSE c

PyLower(s) == [i \in 1..Len(s) |-> PyLowerChar(s[i])]
PyUpper(s) == [i \in 1..Len(s) |-> PyUpperChar(s[i])]
SqlLower(s) == [i \in 1..Len(s) |-> SqlLowerChar(s[i])]

DigitChar(d) == CASE d = 0 -> "0" [] d = 1 -> "1" [] d = 2 -> "2" [] d = 3 -> "3"
                  [] d = 4 -> "4" [] d = 5 -> "5" [] d = 6 -> "6" [] d = 7 -> "7"
                  [] d = 8 -> "8" [] d = 9 -> "9"
Digits == {"0", "1", "2", "3", "4", "5", "6", "7", "8", "9"}

\* str(int) of a non-negative integer, as an f-string formats it.
RECURSIVE IntToStr(_)
IntToStr(n) == IF n < 10 THEN <<DigitChar(n)>>
               ELSE IntToStr(n \div 10) \o <<DigitChar(n % 10)>>

\* SQLite's  s LIKE pat : % matches any run of characters, _ any single one,
\* everything else itself up to ASCII case; no ESCAPE clause is given.
RECURSIVE Like(_, _)
Like(pat, s) ==
    IF pat = <<>> THEN s = <<>>
    ELSE IF Head(pat) = "%"
         THEN Like(Tail(pat), s) \/ (s # <<>> /\ Like(pat, Tail(s)))
         ELSE /\ s # <<>>
              /\ \/ Head(pat) = "_"
                 \/ SqlLowerChar(Head(pat)) = SqlLowerChar(Head(s))
              /\ Like(Tail(pat), Tail(s))

\* t occurs in s as a contiguous run of characters.
IsSubstring(t, s) ==
    \E i \in 0..(Len(s) - Len(t)) : SubSeq(s, i + 1, i + Len(t)) = t

\* ------------------------------------------------------------- the schema
Bodies == {"Lok Sabha", "Rajya Sabha", "State Assembly"}
BillStatusOptions == {"Pending", "Passed", "Not Passed"}
ApprovalOptions == {"Pending", "Yes", "No"}
QuestionStatusOptions == {"Answered", "Not Answered"}
QuestionTypeOptions == {"Starred", "Unstarred"}
SelectMinistry == <<"-- Select Ministry --">>
SelectState == <<"-- Select State --">>

Tables == {"bills", "questions", "current_affairs"}

Codes(rows) == {r.code : r \in rows}
Names(rows) == {r.name : r \in rows}
Ids(rows) == {r.id : r \in rows}
BillCodes == {b.bill_code : b \in bills}
QuestionCodes == {q.question_code : q \in questions}

TableRows(t) == CASE t = "bills" -> bills
                  [] t = "questions" -> questions
                  [] t = "current_affairs" -> affairs

\* No update form is drawn in the session's browser.
NoForm == [selected_code |-> NULL, status |-> "", approval |-> ""]

\* Schema after initialize_database(): five empty tables; AUTOINCREMENT
\* hands out ids 1, 2, ... per table and never reuses one.
Init ==
    /\ ministries = {}
    /\ states = {}
    /\ bills = {}
    /\ questions = {}
    /\ affairs = {}
    /\ nextId = [t \in Tables |-> 1]
    /\ files = {}
    /\ pc = [s \in Sessions |-> "idle"]
    /\ req = [s \in Sessions |-> NoReq]
    /\ outcome = NoOutcome
    /\ view = [op |-> "none"]
    /\ conn = [op |-> "none", open |-> 0]
    /\ session_state = [s \in Sessions |-> [authenticated |-> FALSE, page |-> "home",
                                          password |-> "", form |-> NoForm]]

\* fetch_metadata(table): the dict name -> code.
fetch_metadata(rows) == [n \in Names(rows) |-> (CHOOSE r \in rows : r.name = n).code]

\* dict.get(key): the value, or None for a key the dict does not hold.
DictGet(d, key) == IF key \in DOMAIN d THEN d[key] ELSE NULL

RowsUsed == (nextId["bills"] - 1) + (nextId["questions"] - 1)
            + (nextId["current_affairs"] - 1)
InFlightInserts == Cardinality({s \in Sessions :
                        pc[s] \in {"bill_insert", "qn_insert", "ca_insert"}})

\* The script run of session s ends with the banner result, having executed
\* inserts INSERT statements.
FinishWith(s, result, inserts) ==
    /\ pc' = [pc EXCEPT ![s] = "idle"]
    /\ req' = [req EXCEPT ![s] = NoReq]
    /\ outcome' = [result |-> result, inserts |-> inserts]

Finish(s, result) == FinishWith(s, result, 0)

\* (mutant) the name column without its UNIQUE constraint.
MetaNameNotUnique(rows, code, name) == code \in Codes(rows)

\* --------------------------------------------------------- metadata forms
\* INSERT INTO ministries/states (code, name): both columns UNIQUE NOT NULL.
MetaInsertFails(rows, code, name) == code \in Codes(rows) \/ name \in Names(rows)

\* "Add Ministry" submitted with the two text inputs.
AddMinistry(s, m_code, m_name) ==
    /\ pc[s] = "idle"
    /\ Len(m_code) <= 2
    /\ IF m_code = <<>> \/ m_name = <<>>
       THEN /\ Finish(s, "error_required")
            /\ UNCHANGED ministries
       ELSE IF MetaInsertFails(ministries, PyUpper(m_code), m_name)
            THEN /\ FinishWith(s, "error_duplicate", 1)
                 /\ UNCHANGED ministries
            ELSE /\ Cardinality(ministries) + Cardinality(states) < MaxMeta
                 /\ ministries' = ministries \cup
                                    {[code |-> PyUpper(m_code), name |-> m_name]}
                 /\ FinishWith(s, "success", 1)
    /\ UNCHANGED <<states, bills, questions, affairs, nextId, files, view, conn, session_state>>

\* "Add State" submitted with the two text inputs.
AddState(s, s_code, s_name) ==
    /\ pc[s] = "idle"
    /\ Len(s_code) <= 2
    /\ IF s_code = <<>> \/ s_name = <<>>
       THEN /\ Finish(s, "error_required")
            /\ UNCHANGED states
       ELSE IF MetaInsertFails(states, PyUpper(s_code), s_name)
            THEN /\ FinishWith(s, "error_duplicate", 1)
                 /\ UNCHANGED states
            ELSE /\ Cardinality(ministries) + Cardinality(states) < MaxMeta
                 /\ states' = states \cup {[code |-> PyUpper(s_code), name |-> s_name]}
                 /\ FinishWith(s, "success", 1)
    /\ UNCHANGED <<ministries, bills, questions, affairs, nextId, files, view, conn, session_state>>

\* ------------------------------------------------------------- PDF upload
\* The file_uploader holds no file.
NoUpload == "no upload"

\* os.path.join('pdfs', f"{code}{tail}")
PdfPath(code, tail) == <<"pdfs/">> \o code \o <<tail>>

\* open(path, "wb") followed by write(): creates or replaces the file.
WriteFile(path, content) ==
    {f \in files : f.path # path} \cup {[path |-> path, content |-> content]}

\* The file system after the upload block: written in full, untouched when
\* open() raises, or left truncated when write() raises.
WriteResults == {"ok", "open_fails", "write_fails"}
FilesAfterUpload(path, content, w) ==
    CASE w = "ok" -> WriteFile(path, content)
      [] w = "open_fails" -> files
      [] w = "write_fails" -> WriteFile(path, "partial")

\* (mutant) the except clause of the upload block passes instead of returning.
UploadErrorIgnored(f) == FALSE

\* The upload block ends in its except clause: st.error and return.
UploadFails(f) == f.pdf # NoUpload /\ f.write # "ok"

\* (mutant) only the ministry selection is validated.
MinistryOnlyValidated(f) == f.ministry = <<"-- Select Ministry --">>

\* ----------------------------------------------------------- bill creation
\* (mutant) every bill is given the BL prefix.
BillCodeAlwaysBL(is_state_assembly, state_code, ministry_code, random_num) ==
    <<"B", "L">> \o <<"-">> \o ministry_code \o <<"-">> \o IntToStr(random_num)

\* The code of a new bill from the looked-up codes and random.randint.
BillCode(is_state_assembly, state_code, ministry_code, random_num) ==
    IF is_state_assembly
    THEN state_code \o <<"-">> \o ministry_code \o <<"-">> \o IntToStr(random_num)
    ELSE <<"B", "L">> \o <<"-">> \o ministry_code \o <<"-">> \o IntToStr(random_num)

\* (mutant) the checkbox is offered and read for every legislative body.
MoneyBillUnchecked(legislative_body, checkbox) == checkbox

\* is_money_bill as the form yields it: no checkbox for the Rajya Sabha.
MoneyBillInput(legislative_body, checkbox) ==
    IF legislative_body = "Rajya Sabha" THEN FALSE ELSE checkbox

\* approval_label of the form.
ApprovalLabel(legislative_body) ==
    IF legislative_body = "State Assembly" THEN "Governor Approval"
    ELSE "President Approval"

\* The tuple bill_data built from the submitted form f.
BillData(f, state_code, ministry_code, bill_code, pdf_path) ==
    [bill_code |-> bill_code, bill_name |-> f.name,
     introduced_by |-> f.introduced_by, ministry_code |-> ministry_code,
     legislative_body |-> f.body, state_code |-> state_code,
     votes_favour |-> f.votes_favour, votes_against |-> f.votes_against,
     current_status |-> f.status,
     approval_status |-> ApprovalLabel(f.body),
     approval_result |-> f.approval,
     is_money_bill |-> MoneyBillInput(f.body, f.money),
     pdf_path |-> pdf_path, introduced_date |-> f.date]

\* (mutant) the state lookup dropped: state_code is always None.
StateCodeDropped(is_state_assembly, selected_state_name) == NULL

\* state_code of a new record: looked up for a State Assembly, else None.
StateCodeFor(is_state_assembly, selected_state_name) ==
    IF is_state_assembly THEN DictGet(fetch_metadata(states), selected_state_name)
    ELSE NULL

\* (mutant) the selected name is stored where the code belongs.
MinistryCodeNotLookedUp(selected_ministry_name) == selected_ministry_name

\* ministry_code of a new record.
MinistryCodeFor(selected_ministry_name) ==
    DictGet(fetch_metadata(ministries), selected_ministry_name)

\* The form is rendered only when the metadata it needs exists.
FormAvailable(legislative_body) ==
    /\ ministries # {}
    /\ legislative_body = "State Assembly" => states # {}

\* What the two selectboxes can hold when the form is submitted.
SelectionPossible(f) ==
    /\ f.ministry \in {SelectMinistry} \cup Names(ministries)
    /\ IF f.body = "State Assembly"
       THEN f.state \in {SelectState} \cup Names(states)
       ELSE f.state = NULL

\* The check behind "Please fill in all required fields."
RequiredMissing(f) ==
    \/ f.ministry = SelectMinistry
    \/ (f.body = "State Assembly" /\ f.state = SelectState)

\* render_bill_form, "Create New ... Bill" submitted: validation, code
\* generation and the PDF write; the INSERT follows in save_bill_record.
BillSubmit(s, f) ==
    /\ pc[s] = "idle"
    /\ FormAvailable(f.body)
    /\ SelectionPossible(f)
    /\ IF RequiredMissing(f)
       THEN /\ Finish(s, "error_required")
            /\ UNCHANGED files
       ELSE LET is_state_assembly == f.body = "State Assembly"
                state_code == StateCodeFor(is_state_assembly, f.state)
                ministry_code == MinistryCodeFor(f.ministry)
                bill_code == BillCode(is_state_assembly, state_code,
                                      ministry_code, f.random_num)
                pdf_path == IF f.pdf = NoUpload THEN NULL
                            ELSE PdfPath(bill_code, "_bill.pdf")
            IN  IF UploadFails(f)
                THEN /\ files' = FilesAfterUpload(pdf_path, f.pdf, f.write)
                     /\ Finish(s, "error_file")
                ELSE /\ files' = IF f.pdf = NoUpload THEN files
                                 ELSE FilesAfterUpload(pdf_path, f.pdf, f.write)
                     /\ pc' = [pc EXCEPT ![s] = "bill_insert"]
                     /\ req' = [req EXCEPT ![s] =
                                  [op |-> "bill_insert", inserts |-> 0, form |-> f,
                                   data |-> BillData(f, state_code, ministry_code,
                                                     bill_code, pdf_path)]]
                     /\ UNCHANGED outcome
    /\ UNCHANGED <<dbVars, view, conn, session_state>>

\* (mutant) bill_code without its UNIQUE constraint.
BillCodeNotUnique(bill_data) == FALSE

\* INSERT INTO bills: bill_code is UNIQUE NOT NULL.
BillInsertFails(bill_data) == bill_data.bill_code \in BillCodes

\* The row the INSERT stores: the data under the next AUTOINCREMENT id.
BillRow(id, bill_data) == [id |-> id] @@ bill_data

\* (mutant) a failed INSERT is retried with a fresh random suffix.
save_bill_record_retry(s) ==
    /\ pc[s] = "bill_insert"
    /\ IF BillInsertFails(req[s].data)
       THEN /\ \E n \in {1000, 9999} :
                 req' = [req EXCEPT
                           ![s].data.bill_code =
                               BillCode(req[s].data.legislative_body = "State Assembly",
                                        req[s].data.state_code,
                                        req[s].data.ministry_code, n),
                           ![s].inserts = @ + 1]
            /\ UNCHANGED <<bills, nextId, pc, outcome>>
       ELSE /\ bills' = bills \cup {BillRow(nextId["bills"], req[s].data)}
            /\ nextId' = [nextId EXCEPT !["bills"] = nextId["bills"] + 1]
            /\ FinishWith(s, "success", req[s].inserts + 1)
    /\ UNCHANGED <<ministries, states, questions, affairs, files, view, conn, session_state>>

\* save_bill_record(bill_data)
save_bill_record(s) ==
    /\ pc[s] = "bill_insert"
    /\ IF BillInsertFails(req[s].data)
       THEN /\ UNCHANGED <<bills, nextId>>
            /\ FinishWith(s, "error_db", req[s].inserts + 1)
       ELSE /\ bills' = bills \cup {BillRow(nextId["bills"], req[s].data)}
            /\ nextId' = [nextId EXCEPT !["bills"] = nextId["bills"] + 1]
            /\ FinishWith(s, "success", req[s].inserts + 1)
    /\ UNCHANGED <<ministries, states, questions, affairs, files, view, conn, session_state>>

\* ------------------------------------------------------- question creation
\* The code of a new question from the looked-up codes and random.randint.
QuestionCode(is_state_assembly, state_code, ministry_code, random_num) ==
    IF is_state_assembly
    THEN state_code \o <<"-">> \o ministry_code \o <<"-">> \o IntToStr(random_num)
    ELSE <<"Q", "N">> \o <<"-">> \o ministry_code \o <<"-">> \o IntToStr(random_num)

\* The parameter tuple of the INSERT INTO questions.
QuestionData(f, state_code, ministry_code, question_code, pdf_path) ==
    [question_code |-> question_code, question_title |-> f.name,
     introduced_by |-> f.introduced_by, ministry_code |-> ministry_code,
     legislative_body |-> f.body, state_code |-> state_code,
     q_type |-> f.q_type, current_status |-> f.status,
     pdf_path |-> pdf_path, introduced_date |-> f.date]

\* render_question_form, "Create New ... Question" submitted: validation,
\* code generation and the PDF write; the INSERT follows.
QuestionSubmit(s, f) ==
    /\ pc[s] = "idle"
    /\ FormAvailable(f.body)
    /\ SelectionPossible(f)
    /\ IF RequiredMissing(f)
       THEN /\ Finish(s, "error_required")
            /\ UNCHANGED files
       ELSE LET is_state_assembly == f.body = "State Assembly"
                state_code == StateCodeFor(is_state_assembly, f.state)
                ministry_code == MinistryCodeFor(f.ministry)
                question_code == QuestionCode(is_state_assembly, state_code,
                                              ministry_code, f.random_num)
                pdf_path == IF f.pdf = NoUpload THEN NULL
                            ELSE PdfPath(question_code, "_qn.pdf")
            IN  IF UploadFails(f)
                THEN /\ files' = FilesAfterUpload(pdf_path, f.pdf, f.write)
                     /\ Finish(s, "error_file")
                ELSE /\ files' = IF f.pdf = NoUpload THEN files
                                 ELSE FilesAfterUpload(pdf_path, f.pdf, f.write)
                     /\ pc' = [pc EXCEPT ![s] = "qn_insert"]
                     /\ req' = [req EXCEPT ![s] =
                                  [op |-> "qn_insert", inserts |-> 0, form |-> f,
                                   data |-> QuestionData(f, state_code, ministry_code,
                                                         question_code, pdf_path)]]
                     /\ UNCHANGED outcome
    /\ UNCHANGED <<dbVars, view, conn, session_state>>

\* INSERT INTO questions: question_code is UNIQUE NOT NULL.
QuestionInsertFails(data) == data.question_code \in QuestionCodes

QuestionRow(id, data) == [id |-> id] @@ data

\* The try block of render_question_form that runs the INSERT.
QuestionInsert(s) ==
    /\ pc[s] = "qn_insert"
    /\ IF QuestionInsertFails(req[s].data)
       THEN /\ UNCHANGED <<questions, nextId>>
            /\ FinishWith(s, "error_db", req[s].inserts + 1)
       ELSE /\ questions' = questions \cup
                               {QuestionRow(nextId["questions"], req[s].data)}
            /\ nextId' = [nextId EXCEPT !["questions"] = nextId["questions"] + 1]
            /\ FinishWith(s, "success", req[s].inserts + 1)
    /\ UNCHANGED <<ministries, states, bills, affairs, files, view, conn, session_state>>

\* ------------------------------------------------------------------ fetches
\* f"%{search_term.lower()}%"
SearchLike(search_term) == <<"%">> \o PyLower(search_term) \o <<"%">>

\* LEFT JOIN states s ON x.state_code = s.code: the state's name or NULL.
StateNameOf(state_code) ==
    IF \E st \in states : st.code = state_code
    THEN (CHOOSE st \in states : st.code = state_code).name
    ELSE NULL

\* fetch_bills(legislative_body, search_term): the rows of the result, each
\* a bills row with ministry_name and state_name added by the joins.
fetch_bills(legislative_body, search_term) ==
    LET hit(b, m) ==
            /\ b.ministry_code = m.code
            /\ b.legislative_body = legislative_body
            /\ \/ search_term = <<>>
               \/ Like(SearchLike(search_term), SqlLower(b.bill_code))
               \/ Like(SearchLike(search_term), SqlLower(b.bill_name))
               \/ Like(SearchLike(search_term), SqlLower(m.name))
    IN  {p[1] @@ [ministry_name |-> p[2].name,
                  state_name |-> StateNameOf(p[1].state_code)] :
            p \in {q \in bills \X ministries : hit(q[1], q[2])}}

\* fetch_questions(legislative_body, search_term)
fetch_questions(legislative_body, search_term) ==
    LET hit(x, m) ==
            /\ x.ministry_code = m.code
            /\ x.legislative_body = legislative_body
            /\ \/ search_term = <<>>
               \/ Like(SearchLike(search_term), SqlLower(x.question_code))
               \/ Like(SearchLike(search_term), SqlLower(x.question_title))
               \/ Like(SearchLike(search_term), SqlLower(m.name))
    IN  {p[1] @@ [ministry_name |-> p[2].name,
                  state_name |-> StateNameOf(p[1].state_code)] :
            p \in {q \in questions \X ministries : hit(q[1], q[2])}}

\* fetch_current_affairs(): every row (ORDER BY published_date DESC).
fetch_current_affairs == affairs

\* The characters of the model in code point order, as Python compares str.
CharOrder == <<" ", "%", "-", "0", "1", "2", "3", "4", "5", "6", "7", "8", "9",
               "A", "B", "C", "F", "H", "K", "L", "N", "Q", "_",
               "a", "b", "d", "e", "f", "h", "i", "k", "l", "n", "q", "x", "z",
               "Eacute", "eacute">>
CodePoint(c) == CHOOSE i \in 1..Len(CharOrder) : CharOrder[i] = c

\* a < b on str.
RECURSIVE StrLess(_, _)
StrLess(a, b) ==
    IF b = <<>> THEN FALSE
    ELSE IF a = <<>> THEN TRUE
    ELSE IF Head(a) = Head(b) THEN StrLess(Tail(a), Tail(b))
    ELSE CodePoint(Head(a)) < CodePoint(Head(b))

\* sorted(list(strings))
RECURSIVE SortedStrings(_)
SortedStrings(strings) ==
    IF strings = {} THEN <<>>
    ELSE LET least == CHOOSE x \in strings :
                          \A y \in strings : x = y \/ StrLess(x, y)
         IN  <<least>> \o SortedStrings(strings \ {least})

\* The names of the legislative bodies as text.
BodyText(legislative_body) ==
    CASE legislative_body = "Lok Sabha" ->
            <<"L", "o", "k", " ", "S", "a", "b", "h", "a">>
      [] legislative_body = "Rajya Sabha" ->
            <<"R", "a", "j", "y", "a", " ", "S", "a", "b", "h", "a">>
      [] legislative_body = "State Assembly" ->
            <<"S", "t", "a", "t", "e", " ", "A", "s", "s", "e", "m", "b", "l", "y">>

\* 'Bill' in legislative_body picks the bills table, else the questions table.
SuggestionTable(legislative_body) ==
    IF IsSubstring(<<"B", "i", "l", "l">>, BodyText(legislative_body))
    THEN "bills" ELSE "questions"

\* LIMIT 10 of the suggestion query and the shortest query that is looked up.
SuggestionLimit == 10
MinSuggestLen == 2

\* The rows the suggestion query matches, as <<code, name, ministry_name>>.
SuggestionMatches(legislative_body, search_term) ==
    LET is_bills == SuggestionTable(legislative_body) = "bills"
        code_of(r) == IF is_bills THEN r.bill_code ELSE r.question_code
        name_of(r) == IF is_bills THEN r.bill_name ELSE r.question_title
        hit(r, m) ==
            /\ r.ministry_code = m.code
            /\ r.legislative_body = legislative_body
            /\ \/ Like(SearchLike(search_term), SqlLower(code_of(r)))
               \/ Like(SearchLike(search_term), SqlLower(name_of(r)))
               \/ Like(SearchLike(search_term), SqlLower(m.name))
    IN  {<<p[1].id, code_of(p[1]), name_of(p[1]), p[2].name>> :
            p \in {q \in (IF is_bills THEN bills ELSE questions) \X ministries :
                      hit(q[1], q[2])}}

\* LIMIT n with no ORDER BY: any n of the rows, all of them when fewer.
LimitChoices(rows, n) ==
    {df \in SUBSET rows :
        Cardinality(df) = IF Cardinality(rows) < n THEN Cardinality(rows) ELSE n}

\* fetch_search_suggestions(legislative_body, search_term), df being the rows
\* the query returned: the sorted list of the set of every code, name and
\* ministry name in df.
fetch_search_suggestions(legislative_body, search_term, df) ==
    IF search_term = <<>> \/ Len(search_term) < MinSuggestLen THEN <<>>
    ELSE SortedStrings(UNION {{row[2], row[3], row[4]} : row \in df})

\* ---------------------------------------------------- update / delete UI
\* new_approval = None: nothing to write to approval_result.
NoApproval == "None"

\* render_update_delete_ui up to the SQL statement: the script run fetches
\* df, the admin's selected code picks the record and its id, and the
\* clicked button ("delete" or "update") decides the statement; the widget
\* values of the update form travel with the click.
render_update_delete_ui(s, is_bill, body_type, selected_code, button, new_status, new_approval) ==
    LET df == IF is_bill THEN fetch_bills(body_type, <<>>)
              ELSE fetch_questions(body_type, <<>>)
        code_of(r) == IF is_bill THEN r.bill_code ELSE r.question_code
    IN  /\ pc[s] = "idle"
        /\ df # {}
        /\ \E record \in df :
              /\ code_of(record) = selected_code
              /\ IF button = "delete"
                 THEN /\ new_status = record.current_status
                      /\ new_approval = NoApproval
                 ELSE IF is_bill
                      THEN /\ new_status \in BillStatusOptions
                           /\ IF record.approval_status # ""
                              THEN new_approval \in ApprovalOptions
                              ELSE new_approval = record.approval_result
                      ELSE /\ new_status \in QuestionStatusOptions
                           /\ new_approval = NoApproval
              /\ pc' = [pc EXCEPT ![s] = IF button = "delete" THEN "ud_delete"
                                         ELSE "ud_update"]
              /\ req' = [req EXCEPT ![s] =
                           [op |-> button,
                            table_name |-> IF is_bill THEN "bills" ELSE "questions",
                            record_id |-> record.id,
                            selected_code |-> selected_code,
                            new_status |-> new_status,
                            new_approval |-> new_approval]]
        /\ UNCHANGED outcome
        /\ UNCHANGED <<dbVars, files, view, conn, session_state>>

\* The update form of the bill selected_code is drawn: the two selectboxes
\* start at the record's stored values (index=...index(record[...])).
OpenUpdateForm(s, body_type, selected_code) ==
    /\ pc[s] = "idle"
    /\ session_state[s].form.selected_code # selected_code
    /\ \E record \in fetch_bills(body_type, <<>>) :
          /\ record.bill_code = selected_code
          /\ session_state' = [session_state EXCEPT ![s].form =
                                 [selected_code |-> selected_code,
                                  status |-> record.current_status,
                                  approval |-> record.approval_result]]
    /\ UNCHANGED <<dbVars, files, sessVars, view, conn>>

\* How the framework identifies a keyed selectbox between two script runs:
\* by its key alone, or by its key and arguments (the index among them).
WidgetIdentities == {"key", "parameters"}

\* The value a selectbox returns in the run after the submit: the value the
\* browser sent, or the new default when the widget counts as a new one.
WidgetValue(sent, drawn_default, default, identity) ==
    IF identity = "parameters" /\ drawn_default # default THEN default ELSE sent

\* The admin leaves the approval selectbox as it was drawn.
Untouched == "untouched"

\* "Update Record Status" of the open form: the browser sends the status the
\* admin chose and the approval result the form shows or the admin chose;
\* the run fetches the record again and reads the two selectboxes.
UpdateFormSubmit(s, body_type, status_choice, approval_choice, identity) ==
    LET form == session_state[s].form
        sent_approval == IF approval_choice = Untouched THEN form.approval
                         ELSE approval_choice
    IN  /\ pc[s] = "idle"
        /\ form.selected_code # NULL
        /\ \E record \in fetch_bills(body_type, <<>>) :
              /\ record.bill_code = form.selected_code
              /\ pc' = [pc EXCEPT ![s] = "ud_update"]
              /\ req' = [req EXCEPT ![s] =
                           [op |-> "update", table_name |-> "bills",
                            record_id |-> record.id,
                            selected_code |-> form.selected_code,
                            new_status |-> WidgetValue(status_choice, form.status,
                                                       record.current_status, identity),
                            new_approval |->
                                IF record.approval_status # ""
                                THEN WidgetValue(sent_approval, form.approval,
                                                 record.approval_result, identity)
                                ELSE record.approval_result,
                            approval_choice |-> approval_choice,
                            record |-> record]]
        /\ session_state' = [session_state EXCEPT ![s].form = NoForm]
        /\ UNCHANGED outcome
        /\ UNCHANGED <<dbVars, files, view, conn>>

\* (mutant) the DELETE without its WHERE clause.
DeleteWithoutWhere(rows, record_id) == {}

\* DELETE FROM rows WHERE id = ?
DeleteWhereId(rows, record_id) == {r \in rows : r.id # record_id}

\* (mutant) the UPDATE without its WHERE clause.
UpdateBillEveryRow(rows, record_id, new_status, new_approval) ==
    {[r EXCEPT !.current_status = new_status, !.approval_result = new_approval] :
        r \in rows}

\* UPDATE bills SET current_status = ?, approval_result = ? WHERE id = ?
UpdateBillWhereId(rows, record_id, new_status, new_approval) ==
    {IF r.id = record_id
     THEN [r EXCEPT !.current_status = new_status, !.approval_result = new_approval]
     ELSE r : r \in rows}

\* UPDATE questions SET current_status = ? WHERE id = ?
UpdateQuestionWhereId(rows, record_id, new_status) ==
    {IF r.id = record_id THEN [r EXCEPT !.current_status = new_status] ELSE r :
        r \in rows}

\* The message after a DELETE or UPDATE that raised nothing: the statement's
\* row count is never read, so the message is the success banner.
StatementOutcome(rows, record_id) == "success"

\* The delete button's block: DELETE, commit, success banner.
DeleteClicked(s) ==
    /\ pc[s] = "ud_delete"
    /\ IF req[s].table_name = "bills"
       THEN /\ bills' = DeleteWhereId(bills, req[s].record_id)
            /\ UNCHANGED questions
            /\ Finish(s, StatementOutcome(bills, req[s].record_id))
       ELSE /\ questions' = DeleteWhereId(questions, req[s].record_id)
            /\ UNCHANGED bills
            /\ Finish(s, StatementOutcome(questions, req[s].record_id))
    /\ UNCHANGED <<ministries, states, affairs, nextId, files, view, conn, session_state>>

\* The update form's block: UPDATE, commit, success banner.
UpdateSubmitted(s) ==
    /\ pc[s] = "ud_update"
    /\ IF req[s].table_name = "bills"
       THEN /\ bills' = UpdateBillWhereId(bills, req[s].record_id,
                                          req[s].new_status, req[s].new_approval)
            /\ UNCHANGED questions
            /\ Finish(s, StatementOutcome(bills, req[s].record_id))
       ELSE /\ questions' = UpdateQuestionWhereId(questions, req[s].record_id,
                                                  req[s].new_status)
            /\ UNCHANGED bills
            /\ Finish(s, StatementOutcome(questions, req[s].record_id))
    /\ UNCHANGED <<ministries, states, affairs, nextId, files, view, conn, session_state>>

\* ---------------------------------------------------------- current affairs
\* title.replace(' ', '_')
ReplaceSpaces(title) == [i \in 1..Len(title) |-> IF title[i] = " " THEN "_" ELSE title[i]]

\* f"CA_{title.replace(' ', '_')}_{random.randint(100, 999)}.pdf" under pdfs/
CAPdfPath(title, random_num) ==
    <<"pdfs/">> \o <<"C", "A", "_">> \o ReplaceSpaces(title) \o <<"_">>
        \o IntToStr(random_num) \o <<".pdf">>

\* render_current_affairs_form, "Publish Current Affair" submitted:
\* validation and the PDF write; the INSERT follows.
CASubmit(s, f) ==
    /\ pc[s] = "idle"
    /\ IF f.title = <<>> \/ f.description = <<>>
       THEN /\ Finish(s, "error_required")
            /\ UNCHANGED files
       ELSE LET pdf_path == IF f.pdf = NoUpload THEN NULL
                            ELSE CAPdfPath(f.title, f.random_num)
            IN  IF UploadFails(f)
                THEN /\ files' = FilesAfterUpload(pdf_path, f.pdf, f.write)
                     /\ Finish(s, "error_file")
                ELSE /\ files' = IF f.pdf = NoUpload THEN files
                                 ELSE FilesAfterUpload(pdf_path, f.pdf, f.write)
                     /\ pc' = [pc EXCEPT ![s] = "ca_insert"]
                     /\ req' = [req EXCEPT ![s] =
                                  [op |-> "ca_insert", inserts |-> 0,
                                   data |-> [title |-> f.title,
                                             description |-> f.description,
                                             url |-> f.url, pdf_path |-> pdf_path,
                                             published_date |-> f.date]]]
                     /\ UNCHANGED outcome
    /\ UNCHANGED <<dbVars, view, conn, session_state>>

\* The try block of render_current_affairs_form: no UNIQUE column, the
\* INSERT stores the row under the next id.
CAInsert(s) ==
    /\ pc[s] = "ca_insert"
    /\ affairs' = affairs \cup {[id |-> nextId["current_affairs"]] @@ req[s].data}
    /\ nextId' = [nextId EXCEPT !["current_affairs"] = nextId["current_affairs"] + 1]
    /\ FinishWith(s, "success", req[s].inserts + 1)
    /\ UNCHANGED <<ministries, states, bills, questions, files, view, conn, session_state>>

\* render_manage_ca, delete button: the first row of df_ca (newest first)
\* with the selected title gives the id.
render_manage_ca(s, selected_title) ==
    LET df_ca == fetch_current_affairs
        titled == {r \in df_ca : r.title = selected_title}
    IN  /\ pc[s] = "idle"
        /\ \E record \in titled :
              /\ \A r \in titled : r.published_date <= record.published_date
              /\ pc' = [pc EXCEPT ![s] = "ca_delete"]
              /\ req' = [req EXCEPT ![s] =
                           [op |-> "ca_delete", table_name |-> "current_affairs",
                            record_id |-> record.id,
                            selected_code |-> selected_title]]
        /\ UNCHANGED outcome
        /\ UNCHANGED <<dbVars, files, view, conn, session_state>>

\* delete_record('current_affairs', record_id, record_code)
delete_record(s) ==
    /\ pc[s] = "ca_delete"
    /\ IF req[s].record_id \notin Nat
       THEN /\ UNCHANGED affairs
            /\ Finish(s, "error_no_id")
       ELSE /\ affairs' = DeleteWhereId(affairs, req[s].record_id)
            /\ Finish(s, StatementOutcome(affairs, req[s].record_id))
    /\ UNCHANGED <<ministries, states, bills, questions, nextId, files, view, conn, session_state>>

\* ------------------------------------------------------------------ viewers
\* A viewer page lists bills: the result of fetch_bills is what is shown.
ListBills(legislative_body, search_term) ==
    /\ view' = [op |-> "bills", legislative_body |-> legislative_body,
                search_term |-> search_term,
                result |-> fetch_bills(legislative_body, search_term)]
    /\ UNCHANGED <<dbVars, files, sessVars, conn, session_state>>

\* A viewer page lists questions.
ListQuestions(legislative_body, search_term) ==
    /\ view' = [op |-> "questions", legislative_body |-> legislative_body,
                search_term |-> search_term,
                result |-> fetch_questions(legislative_body, search_term)]
    /\ UNCHANGED <<dbVars, files, sessVars, conn, session_state>>

\* The orders in which a sort may leave the rows: every arrangement in which
\* every row is followed by one it may precede, sorts_ahead being the pairs
\* <<a, b>> with a not after b in the sort key (ties fall either way).
SortedBy(rows, sorts_ahead) ==
    LET n == Cardinality(rows)
    IN  {seq \in [1..n -> rows] :
            /\ \A i, j \in 1..n : i # j => seq[i] # seq[j]
            /\ \A i \in 1..(n - 1) : <<seq[i], seq[i + 1]>> \in sorts_ahead}

\* The position of a value in an ordered pd.Categorical.
CategoryIndex(categories, value) ==
    CHOOSE i \in 1..Len(categories) : categories[i] = value

\* status_order of the two viewers.
BillStatusOrder == <<"Passed", "Pending", "Not Passed">>
QuestionStatusOrder == <<"Answered", "Not Answered">>

\* ORDER BY introduced_date DESC of the fetches.
NewestFirst(a, b) == a.introduced_date >= b.introduced_date

\* (mutant) the bills sorted by status with ascending=False.
BillStatusDescending(a, b) ==
    CategoryIndex(BillStatusOrder, a.current_status)
        >= CategoryIndex(BillStatusOrder, b.current_status)

\* df_bills.sort_values('status_sort')
BillStatusAscending(a, b) ==
    CategoryIndex(BillStatusOrder, a.current_status)
        <= CategoryIndex(BillStatusOrder, b.current_status)

\* df_bills.sort_values('bill_name')
BillNameAscending(a, b) == a.bill_name = b.bill_name \/ StrLess(a.bill_name, b.bill_name)

\* df_qns.sort_values('status_sort', ascending=False)
QuestionStatusDescending(a, b) ==
    CategoryIndex(QuestionStatusOrder, a.current_status)
        >= CategoryIndex(QuestionStatusOrder, b.current_status)

\* df_qns.sort_values('q_type'): 'Starred' < 'Unstarred' as str.
QuestionTypeAscending(a, b) == a.q_type = "Starred" \/ b.q_type = "Unstarred"

BillSortOptions == {"Introduced Date (Newest)", "Status", "Alphabetical (Bill Name)"}
QuestionSortOptions == {"Date (Newest)", "Status", "Type"}

\* render_bills_viewer: the bills fetched for the page, in the order shown.
render_bills_viewer(legislative_body, search_term, sort_by) ==
    LET df_bills == fetch_bills(legislative_body, search_term)
        shown == IF sort_by = "Status"
                 THEN SortedBy(df_bills, {p \in df_bills \X df_bills : BillStatusAscending(p[1], p[2])})
                 ELSE IF sort_by = "Alphabetical (Bill Name)"
                 THEN SortedBy(df_bills, {p \in df_bills \X df_bills : BillNameAscending(p[1], p[2])})
                 ELSE SortedBy(df_bills, {p \in df_bills \X df_bills : NewestFirst(p[1], p[2])})
    IN  /\ \E rows \in shown :
              view' = [op |-> "bills_viewer", legislative_body |-> legislative_body,
                       search_term |-> search_term, sort_by |-> sort_by,
                       shown |-> rows]
        /\ UNCHANGED <<dbVars, files, sessVars, conn, session_state>>

\* render_questions_viewer: the questions fetched, in the order shown.
render_questions_viewer(body_type, search_term, sort_by) ==
    LET df_qns == fetch_questions(body_type, search_term)
        shown == IF sort_by = "Status"
                 THEN SortedBy(df_qns, {p \in df_qns \X df_qns : QuestionStatusDescending(p[1], p[2])})
                 ELSE IF sort_by = "Type"
                 THEN SortedBy(df_qns, {p \in df_qns \X df_qns : QuestionTypeAscending(p[1], p[2])})
                 ELSE SortedBy(df_qns, {p \in df_qns \X df_qns : NewestFirst(p[1], p[2])})
    IN  /\ \E rows \in shown :
              view' = [op |-> "questions_viewer", legislative_body |-> body_type,
                       search_term |-> search_term, sort_by |-> sort_by,
                       shown |-> rows]
        /\ UNCHANGED <<dbVars, files, sessVars, conn, session_state>>

\* A viewer page looks up the suggestions for what was typed.
Suggest(legislative_body, search_term) ==
    /\ \E df \in LimitChoices(SuggestionMatches(legislative_body, search_term),
                              SuggestionLimit) :
          view' = [op |-> "suggest", legislative_body |-> legislative_body,
                   search_term |-> search_term,
                   result |-> fetch_search_suggestions(legislative_body,
                                                       search_term, df)]
    /\ UNCHANGED <<dbVars, files, sessVars, conn, session_state>>

\* The search column of render_bills_viewer: the suggestions for what was
\* typed, the "Did you mean?" selectbox ('' or one of the suggestions), and
\* the bills fetched for the final query.
BillsDidYouMean(legislative_body, raw_search_query) ==
    /\ \E df \in LimitChoices(SuggestionMatches(legislative_body, raw_search_query),
                              SuggestionLimit) :
          LET suggestions == fetch_search_suggestions(legislative_body,
                                                      raw_search_query, df)
          IN  \E selected_suggestion \in
                     {<<>>} \cup {suggestions[i] : i \in 1..Len(suggestions)} :
                 LET final_search_query ==
                         IF selected_suggestion # <<>> THEN selected_suggestion
                         ELSE raw_search_query
                 IN  view' = [op |-> "bills_did_you_mean",
                              legislative_body |-> legislative_body,
                              raw_search_query |-> raw_search_query,
                              suggestions |-> suggestions,
                              selected_suggestion |-> selected_suggestion,
                              shown |-> fetch_bills(legislative_body,
                                                    final_search_query)]
    /\ UNCHANGED <<dbVars, files, sessVars, conn, session_state>>

\* ------------------------------------------------- login and page router
ADMIN_PASSWORD == "admin"

AdminPages == {"manage_metadata", "manage_data", "manage_ca"}
NavTargets == {"lok_sabha", "questions", "state_assemblies", "current_affairs"}

\* (mutant) the Login button without the password comparison.
AnyPasswordAccepted(password) == TRUE

\* password == ADMIN_PASSWORD
PasswordAccepted(password) == password = ADMIN_PASSWORD

\* The Login button, shown while the session is not authenticated, pressed
\* with password in the text input: the right password sets the flag and
\* reruns the script, a wrong one shows "Incorrect password".
Login(s, password) ==
    /\ pc[s] = "idle"
    /\ ~session_state[s].authenticated
    /\ session_state' = [session_state EXCEPT
                            ![s].password = password,
                            ![s].authenticated = PasswordAccepted(password)]
    /\ UNCHANGED <<dbVars, files, sessVars, view, conn>>

\* The Logout button, shown while the session is authenticated; the page
\* entry is left as it is.
Logout(s) ==
    /\ pc[s] = "idle"
    /\ session_state[s].authenticated
    /\ session_state' = [session_state EXCEPT ![s].authenticated = FALSE]
    /\ UNCHANGED <<dbVars, files, sessVars, view, conn>>

\* The three buttons of the admin menu, drawn only for an authenticated
\* session.
AdminMenu(s, target_page) ==
    /\ pc[s] = "idle"
    /\ session_state[s].authenticated
    /\ session_state' = [session_state EXCEPT ![s].page = target_page]
    /\ UNCHANGED <<dbVars, files, sessVars, view, conn>>

\* navigate(target_page), called by the four buttons of the home page
\* navigation, which every session sees.
navigate(s, target_page) ==
    /\ pc[s] = "idle"
    /\ session_state' = [session_state EXCEPT ![s].page = target_page]
    /\ UNCHANGED <<dbVars, files, sessVars, view, conn>>

\* The main page router: the render function the script run of session s
\* ends in, and its argument.
Router(s) ==
    LET page == session_state[s].page
    IN  IF session_state[s].authenticated
        THEN IF page \in AdminPages
             THEN [render |-> CASE page = "manage_metadata" -> "render_manage_metadata"
                                [] page = "manage_data" -> "render_manage_data"
                                [] page = "manage_ca" -> "render_manage_ca",
                   arg |-> ""]
             ELSE [render |-> "dashboard", arg |-> ""]
        ELSE CASE page = "lok_sabha" ->
                    [render |-> "render_bills_viewer", arg |-> "Lok Sabha"]
               [] page = "rajya_sabha" ->
                    [render |-> "render_bills_viewer", arg |-> "Rajya Sabha"]
               [] page = "state_assemblies" ->
                    [render |-> "render_bills_viewer", arg |-> "State Assembly"]
               [] page = "questions" ->
                    [render |-> "render_questions_viewer", arg |-> ""]
               [] page = "current_affairs" ->
                    [render |-> "render_ca_viewer", arg |-> ""]
               [] OTHER -> [render |-> "none", arg |-> ""]

\* render_ca_viewer: every stored item is shown.
render_ca_viewer ==
    /\ view' = [op |-> "ca_viewer", shown |-> fetch_current_affairs]
    /\ UNCHANGED <<dbVars, files, sessVars, conn, session_state>>

\* ------------------------------------------------------------ AI summary
\* len(bill_text) < 100: the shortest text that is sent to the provider.
MinTextLen == 100

\* extract_text_from_pdf: the text of the pages (kept as its length), or
\* None when PdfReader or a page raises.
extract_text_from_pdf(readable, text_len) ==
    IF readable THEN [none |-> FALSE, len |-> text_len]
    ELSE [none |-> TRUE, len |-> 0]

\* not pdf_path or not os.path.exists(pdf_path)
NoDocument(pdf_path) ==
    \/ pdf_path = NULL
    \/ pdf_path = <<>>
    \/ pdf_path \notin {f.path : f \in files}

\* (mutant) the length test dropped.
TextNeverTooShort(bill_text) == FALSE

\* not bill_text or len(bill_text) < 100
TextTooShort(bill_text) ==
    bill_text.none \/ bill_text.len = 0 \/ bill_text.len < MinTextLen

ProviderResults == {"ok", "api_error", "other_error"}

\* get_ai_summary(pdf_path): what the page shows, and whether
\* generate_content was called; readable and text_len are what the PDF
\* yields, key_set whether GEMINI_API_KEY is configured, provider what the
\* call does.
get_ai_summary(pdf_path, readable, text_len, key_set, provider) ==
    LET bill_text == extract_text_from_pdf(readable, text_len)
        shown == IF NoDocument(pdf_path)
                 THEN [result |-> "no_document", called |-> FALSE]
                 ELSE IF TextTooShort(bill_text)
                 THEN [result |-> "too_short", called |-> FALSE]
                 ELSE IF ~key_set
                 THEN [result |-> "key_error", called |-> FALSE]
                 ELSE IF provider # "ok"
                 THEN [result |-> "provider_error", called |-> TRUE]
                 ELSE [result |-> "summary", called |-> TRUE]
    IN  /\ view' = [op |-> "summary", pdf_path |-> pdf_path,
                    no_document |-> NoDocument(pdf_path),
                    readable |-> readable, text_len |-> text_len,
                    key_set |-> key_set, provider |-> provider] @@ shown
        /\ UNCHANGED <<dbVars, files, sessVars, conn, session_state>>

\* ------------------------------------------------------------ connections
\* The store operations: each calls get_db_connection() and runs one query
\* or statement on the connection.
StoreOps == {"fetch_metadata", "fetch_bills", "fetch_questions",
             "fetch_current_affairs", "fetch_search_suggestions",
             "save_bill_record", "delete_record",
             "insert_ministry", "list_ministries", "insert_state", "list_states",
             "insert_question", "delete_by_id", "update_status",
             "insert_current_affair"}

\* The operations whose conn.close() stands in a finally block.
ClosedInFinally == {"fetch_bills", "fetch_questions", "save_bill_record",
                    "delete_record", "insert_ministry", "insert_state",
                    "insert_question", "delete_by_id", "update_status",
                    "insert_current_affair"}

\* Connections that may stay open before the model stops opening more.
MaxOpen == 2

\* conn = get_db_connection() of a store operation.
StoreCall(op) ==
    /\ conn.op = "none"
    /\ conn.open < MaxOpen
    /\ conn' = [op |-> op, open |-> conn.open + 1]
    /\ UNCHANGED <<dbVars, files, sessVars, view, session_state>>

\* The query or statement of the operation runs and the operation is left:
\* conn.close() is reached when nothing was raised, or from a finally block;
\* an error raised where close() follows the query in line leaves the
\* function before close().
StoreReturn(raises) ==
    /\ conn.op # "none"
    /\ conn' = [op |-> "none",
                open |-> IF raises /\ conn.op \notin ClosedInFinally
                         THEN conn.open
                         ELSE conn.open - 1]
    /\ UNCHANGED <<dbVars, files, sessVars, view, session_state>>

\* ------------------------------------------------------------------- inputs
MinistryCodeInputs == {<<>>, <<"f", "n">>, <<"F", "N">>, <<"h">>}
MinistryNameInputs == {<<>>, <<"F", "i">>, <<"H", "e">>}
StateCodeInputs == {<<"k", "a">>, <<"b", "l">>}
StateNameInputs == {<<"K", "a">>, <<"B", "l">>}
RandomInputs == {1000, 9999}
CARandomInputs == {100, 999}
DateInputs == {1}

\* The forms an admin can submit in the current state, over the given values.
BillForms(bodies, names, statuses, approvals, moneys, pdfs, writes) ==
    {f \in [body : bodies,
            ministry : {SelectMinistry} \cup Names(ministries),
            state : {SelectState, NULL} \cup Names(states),
            name : names, introduced_by : {<<"x">>},
            status : statuses, approval : approvals, money : moneys,
            votes_favour : {10}, votes_against : {3},
            pdf : pdfs, write : writes, date : DateInputs,
            random_num : RandomInputs] :
        /\ SelectionPossible(f)
        /\ f.pdf = NoUpload => f.write = "ok"}

QuestionForms(bodies, names, q_types, statuses, pdfs, writes) ==
    {f \in [body : bodies,
            ministry : {SelectMinistry} \cup Names(ministries),
            state : {SelectState, NULL} \cup Names(states),
            name : names, introduced_by : {<<"x">>},
            q_type : q_types, status : statuses,
            pdf : pdfs, write : writes, date : DateInputs,
            random_num : RandomInputs] :
        /\ SelectionPossible(f)
        /\ f.pdf = NoUpload => f.write = "ok"}

CAForms(titles, pdfs, writes) ==
    {f \in [title : titles, description : {<<>>, <<"d">>}, url : {<<>>},
            pdf : pdfs, write : writes, date : DateInputs,
            random_num : CARandomInputs] :
        f.pdf = NoUpload => f.write = "ok"}

\* A creation may start while the row budget is not used up.
RowBudget == RowsUsed + InFlightInserts < MaxRows

\* The values an admin leaves in the update form before submitting it.
UpdateChoices == {<<"Passed", "Yes">>, <<"Not Passed", "No">>,
                  <<"Answered", NoApproval>>, <<"Not Answered", NoApproval>>}

\* The clicks on the update/delete tab.
UpdateDeleteClick(s) ==
    \E is_bill \in BOOLEAN, body_type \in Bodies,
       selected_code \in BillCodes \cup QuestionCodes :
        \/ \E ch \in UpdateChoices :
              render_update_delete_ui(s, is_bill, body_type, selected_code,
                                      "update", ch[1], ch[2])
        \/ \E r \in bills \cup questions :
              render_update_delete_ui(s, is_bill, body_type, selected_code,
                                      "delete", r.current_status, NoApproval)

\* ------------------------------------------------------------ specifications
\* Spec: one admin session creates, updates and deletes bills and questions
\* of every legislative body.
Next ==
    \E s \in {1} :
        \/ \E c \in {<<"f", "n">>}, n \in {<<"F", "i">>} : AddMinistry(s, c, n)
        \/ \E c \in StateCodeInputs, n \in {<<"K", "a">>} : AddState(s, c, n)
        \/ \E f \in BillForms(Bodies, {<<"F", "i">>}, {"Pending"}, {"Pending"},
                               BOOLEAN, {NoUpload}, {"ok"}) :
              RowBudget /\ BillSubmit(s, f)
        \/ save_bill_record(s)
        \/ \E f \in QuestionForms(Bodies, {<<"F", "i">>}, {"Starred"},
                                   {"Not Answered"}, {NoUpload}, {"ok"}) :
              RowBudget /\ QuestionSubmit(s, f)
        \/ QuestionInsert(s)
        \/ UpdateDeleteClick(s)
        \/ DeleteClicked(s)
        \/ UpdateSubmitted(s)

Spec == Init /\ [][Next]_vars

\* SpecUD: two admin sessions whose script runs interleave; Lok Sabha bills
\* and questions and current affairs are created, updated and deleted.
NextUD ==
    \E s \in Sessions :
        \/ \E c \in {<<"f", "n">>}, n \in {<<"F", "i">>} : AddMinistry(s, c, n)
        \/ \E f \in BillForms({"Lok Sabha"}, {<<"F", "i">>}, {"Pending"}, {"Pending"},
                               {TRUE}, {NoUpload}, {"ok"}) :
              RowBudget /\ BillSubmit(s, f)
        \/ save_bill_record(s)
        \/ \E f \in QuestionForms({"Lok Sabha"}, {<<"F", "i">>}, {"Starred"},
                                   {"Not Answered"}, {NoUpload}, {"ok"}) :
              RowBudget /\ QuestionSubmit(s, f)
        \/ QuestionInsert(s)
        \/ \E f \in CAForms({<<"F", "i">>}, {NoUpload}, {"ok"}) :
              RowBudget /\ CASubmit(s, f)
        \/ CAInsert(s)
        \/ UpdateDeleteClick(s)
        \/ DeleteClicked(s)
        \/ UpdateSubmitted(s)
        \/ \E selected_title \in {r.title : r \in affairs} :
              render_manage_ca(s, selected_title)
        \/ delete_record(s)

SpecUD == Init /\ [][NextUD]_vars

\* What a visitor types into the search box of a viewer page.
SearchTerms == {<<>>, <<"A", "B">>, <<"f", "i">>, <<"z">>, <<"_">>, <<"%">>,
                <<"eacute">>, <<" ">>}

\* SpecSearch: one admin session fills the store with bills and questions of
\* the two houses while the viewer pages list them under a search term.
NextSearch ==
    \/ \E s \in {1} :
          \/ \E c \in {<<"f", "n">>}, n \in {<<"F", "i">>} : AddMinistry(s, c, n)
          \/ \E f \in BillForms({"Lok Sabha", "Rajya Sabha"},
                                 {<<"a", "b">>, <<"Eacute">>}, {"Pending"},
                                 {"Pending"}, {FALSE}, {NoUpload}, {"ok"}) :
                RowBudget /\ BillSubmit(s, f)
          \/ save_bill_record(s)
          \/ \E f \in QuestionForms({"Lok Sabha"}, {<<"a", "b">>, <<"Eacute">>},
                                     {"Starred"}, {"Not Answered"},
                                     {NoUpload}, {"ok"}) :
                RowBudget /\ QuestionSubmit(s, f)
          \/ QuestionInsert(s)
    \/ \E legislative_body \in {"Lok Sabha", "Rajya Sabha"},
          search_term \in SearchTerms :
          \/ ListBills(legislative_body, search_term)
          \/ ListQuestions(legislative_body, search_term)

SpecSearch == Init /\ [][NextSearch]_vars

\* SpecSuggest: one admin session stores Lok Sabha questions with distinct
\* titles while the viewer pages look up suggestions.
SuggestRows == 5
SuggestRandomInputs == 1000..1004
SuggestTerms == {<<"f">>, <<"f", "i">>}
SuggestTitle(random_num) == <<"q", DigitChar(random_num % 10)>>

NextSuggest ==
    \/ \E s \in {1} :
          \/ \E c \in {<<"f", "n">>}, n \in {<<"F", "i">>} : AddMinistry(s, c, n)
          \/ \E f \in QuestionForms({"Lok Sabha"}, {<<>>}, {"Starred"},
                                     {"Not Answered"}, {NoUpload}, {"ok"}),
                n \in SuggestRandomInputs :
                /\ nextId["questions"] - 1 + InFlightInserts < SuggestRows
                /\ QuestionSubmit(s, [f EXCEPT !.random_num = n,
                                               !.name = SuggestTitle(n)])
          \/ QuestionInsert(s)
    \/ \E legislative_body \in {"Lok Sabha"}, search_term \in SuggestTerms :
          Suggest(legislative_body, search_term)

SpecSuggest == Init /\ [][NextSuggest]_vars

\* SpecSort: one admin session stores Lok Sabha bills and questions of every
\* status while the viewer pages show them under each sort order.
NextSort ==
    \/ \E s \in {1} :
          \/ \E c \in {<<"f", "n">>}, n \in {<<"F", "i">>} : AddMinistry(s, c, n)
          \/ \E f \in BillForms({"Lok Sabha"}, {<<"a", "b">>, <<"B">>},
                                 BillStatusOptions, {"Pending"}, {FALSE},
                                 {NoUpload}, {"ok"}) :
                RowBudget /\ BillSubmit(s, f)
          \/ save_bill_record(s)
          \/ \E f \in QuestionForms({"Lok Sabha"}, {<<"a", "b">>},
                                     QuestionTypeOptions, QuestionStatusOptions,
                                     {NoUpload}, {"ok"}) :
                RowBudget /\ QuestionSubmit(s, f)
          \/ QuestionInsert(s)
    \/ \E sort_by \in BillSortOptions :
          render_bills_viewer("Lok Sabha", <<>>, sort_by)
    \/ \E sort_by \in QuestionSortOptions :
          render_questions_viewer("Lok Sabha", <<>>, sort_by)

SpecSort == Init /\ [][NextSort]_vars

\* SpecMeta: two admin sessions add ministries and states, with codes in
\* either case and of either length, and create bills and questions from
\* them.
NextMeta ==
    \E s \in Sessions :
        \/ \E c \in MinistryCodeInputs, n \in MinistryNameInputs :
              AddMinistry(s, c, n)
        \/ \E c \in StateCodeInputs, n \in StateNameInputs : AddState(s, c, n)
        \/ \E f \in BillForms({"Lok Sabha", "State Assembly"}, {<<"a", "b">>},
                               {"Pending"}, {"Pending"}, {FALSE},
                               {NoUpload}, {"ok"}) :
              RowBudget /\ BillSubmit(s, f)
        \/ save_bill_record(s)
        \/ \E f \in QuestionForms({"Lok Sabha", "State Assembly"}, {<<"a", "b">>},
                                   {"Starred"}, {"Not Answered"},
                                   {NoUpload}, {"ok"}) :
              RowBudget /\ QuestionSubmit(s, f)
        \/ QuestionInsert(s)

SpecMeta == Init /\ [][NextMeta]_vars

\* SpecConn: the store operations open and leave their connections, with and
\* without an error from the database, while an admin session fills the
\* store.
NextConn ==
    \/ \E op \in StoreOps : StoreCall(op)
    \/ \E raises \in BOOLEAN : StoreReturn(raises)
    \/ \E s \in {1} :
          \/ \E c \in {<<"f", "n">>}, n \in {<<"F", "i">>} : AddMinistry(s, c, n)
          \/ \E f \in BillForms({"Lok Sabha"}, {<<"a", "b">>}, {"Pending"},
                                 {"Pending"}, {FALSE}, {NoUpload}, {"ok"}) :
                RowBudget /\ BillSubmit(s, f)
          \/ save_bill_record(s)

SpecConn == Init /\ [][NextConn]_vars

\* SpecUpload: one admin session submits creation forms with and without a
\* PDF, with and without their selections, the file write succeeding or
\* failing.
PdfInputs == {NoUpload, "pdf"}

UploadBillForms ==
    {f \in BillForms({"State Assembly"}, {<<"a", "b">>}, {"Pending"},
                     {"Pending"}, {FALSE}, PdfInputs, WriteResults) :
        f.random_num = 1000}
UploadQuestionForms ==
    {f \in QuestionForms({"Lok Sabha"}, {<<"a", "b">>}, {"Starred"},
                         {"Not Answered"}, PdfInputs, WriteResults) :
        f.random_num = 1000}
UploadCAForms ==
    {f \in CAForms({<<"F", "i">>}, PdfInputs, WriteResults) :
        f.random_num = 100 /\ f.description # <<>>}

NextUpload ==
    \E s \in {1} :
        \/ \E c \in {<<"f", "n">>}, n \in {<<"F", "i">>} : AddMinistry(s, c, n)
        \/ \E c \in {<<"k", "a">>}, n \in {<<"K", "a">>} : AddState(s, c, n)
        \/ \E f \in UploadBillForms : RowBudget /\ BillSubmit(s, f)
        \/ save_bill_record(s)
        \/ \E f \in UploadQuestionForms : RowBudget /\ QuestionSubmit(s, f)
        \/ QuestionInsert(s)
        \/ \E f \in UploadCAForms : RowBudget /\ CASubmit(s, f)
        \/ CAInsert(s)

SpecUpload == Init /\ [][NextUpload]_vars

\* SpecSummary: current-affairs items are published with and without a PDF
\* while summaries are requested for stored and for missing documents.
TextLenInputs == {0, 99, 100}
SummaryPaths ==
    {NULL, <<>>, <<"pdfs/", "g", "o", "n", "e">>} \cup {r.pdf_path : r \in affairs}

NextSummary ==
    \/ \E s \in {1} :
          \/ \E f \in UploadCAForms : RowBudget /\ CASubmit(s, f)
          \/ CAInsert(s)
    \/ \E pdf_path \in SummaryPaths, readable \in BOOLEAN,
          text_len \in TextLenInputs, key_set \in BOOLEAN,
          provider \in ProviderResults :
          get_ai_summary(pdf_path, readable, text_len, key_set, provider)

SpecSummary == Init /\ [][NextSummary]_vars

\* SpecDidYouMean: Lok Sabha bills and questions are stored while the Lok
\* Sabha and Rajya Sabha bills viewers are searched with suggestions.
NextDidYouMean ==
    \/ \E s \in {1} :
          \/ \E c \in {<<"f", "n">>}, n \in {<<"F", "i">>} : AddMinistry(s, c, n)
          \/ \E f \in BillForms({"Lok Sabha"}, {<<"a", "b">>}, {"Pending"},
                                 {"Pending"}, {FALSE}, {NoUpload}, {"ok"}) :
                RowBudget /\ BillSubmit(s, f)
          \/ save_bill_record(s)
          \/ \E f \in QuestionForms({"Lok Sabha"}, {<<"q", "0">>}, {"Starred"},
                                     {"Not Answered"}, {NoUpload}, {"ok"}) :
                RowBudget /\ QuestionSubmit(s, f)
          \/ QuestionInsert(s)
    \/ \E legislative_body \in {"Lok Sabha", "Rajya Sabha"},
          raw_search_query \in {<<"f">>, <<"f", "i">>, <<"a", "b">>} :
          BillsDidYouMean(legislative_body, raw_search_query)

SpecDidYouMean == Init /\ [][NextDidYouMean]_vars

\* SpecOverwrite: Lok Sabha bills and current-affairs items are created with
\* uploads of two different documents while the generated number repeats.
DocumentInputs == {NoUpload, "pdf", "other pdf"}
OverwriteBillForms ==
    {f \in BillForms({"Lok Sabha"}, {<<"a", "b">>}, {"Pending"}, {"Pending"},
                     {FALSE}, DocumentInputs, {"ok"}) : f.random_num = 1000}
OverwriteCAForms ==
    {f \in CAForms({<<"F", "i">>}, DocumentInputs, {"ok"}) :
        f.random_num = 100 /\ f.description # <<>>}

NextOverwrite ==
    \E s \in {1} :
        \/ \E c \in {<<"f", "n">>}, n \in {<<"F", "i">>} : AddMinistry(s, c, n)
        \/ \E f \in OverwriteBillForms : RowBudget /\ BillSubmit(s, f)
        \/ save_bill_record(s)
        \/ \E f \in OverwriteCAForms : RowBudget /\ CASubmit(s, f)
        \/ CAInsert(s)

SpecOverwrite == Init /\ [][NextOverwrite]_vars

\* SpecStale: two admin sessions keep the update form of a Lok Sabha bill
\* open and submit it, each after the other may have committed.
NextStale ==
    \/ \E c \in {<<"f", "n">>}, n \in {<<"F", "i">>} : AddMinistry(1, c, n)
    \/ \E f \in BillForms({"Lok Sabha"}, {<<"a", "b">>}, {"Pending"}, {"Pending"},
                           {FALSE}, {NoUpload}, {"ok"}) :
          /\ f.random_num = 1000
          /\ RowBudget /\ BillSubmit(1, f)
    \/ save_bill_record(1)
    \/ \E s \in Sessions :
          \/ \E selected_code \in BillCodes :
                OpenUpdateForm(s, "Lok Sabha", selected_code)
          \/ \E status_choice \in {"Pending", "Passed"},
                approval_choice \in {Untouched, "Yes"},
                identity \in WidgetIdentities :
                UpdateFormSubmit(s, "Lok Sabha", status_choice, approval_choice,
                                 identity)
          \/ UpdateSubmitted(s)

SpecStale == Init /\ [][NextStale]_vars

\* SpecAuth: two browser sessions log in and out, use the admin menu and
\* the home page navigation, and act on the page the router renders.
PasswordInputs == {"admin", "Admin"}
Renders(s, render) == pc[s] = "idle" /\ Router(s).render = render

NextAuth ==
    \E s \in Sessions :
        \/ \E password \in PasswordInputs : Login(s, password)
        \/ Logout(s)
        \/ \E target_page \in AdminPages : AdminMenu(s, target_page)
        \/ \E target_page \in NavTargets : navigate(s, target_page)
        \/ /\ Renders(s, "render_manage_metadata")
           /\ \E c \in {<<"f", "n">>}, n \in {<<"F", "i">>} : AddMinistry(s, c, n)
        \/ /\ Renders(s, "render_manage_data")
           /\ \E f \in BillForms({"Lok Sabha"}, {<<"F", "i">>}, {"Pending"},
                                  {"Pending"}, {FALSE}, {NoUpload}, {"ok"}) :
                 RowBudget /\ BillSubmit(s, f)
        \/ save_bill_record(s)
        \/ /\ Renders(s, "render_manage_ca")
           /\ \/ \E f \in CAForms({<<"F", "i">>}, {NoUpload}, {"ok"}) :
                    RowBudget /\ CASubmit(s, f)
              \/ \E selected_title \in {r.title : r \in affairs} :
                    render_manage_ca(s, selected_title)
        \/ CAInsert(s)
        \/ delete_record(s)
        \/ /\ Renders(s, "render_bills_viewer")
           /\ render_bills_viewer(Router(s).arg, <<>>, "Status")
        \/ /\ Renders(s, "render_questions_viewer")
           /\ render_questions_viewer("Lok Sabha", <<>>, "Status")
        \/ Renders(s, "render_ca_viewer") /\ render_ca_viewer

SpecAuth == Init /\ [][NextAuth]_vars

\* SpecNav: session 1 is a visitor who never logs in and keeps using the
\* navigation buttons; session 2 is the admin publishing current affairs.
NextNav ==
    \/ \E target_page \in NavTargets : navigate(1, target_page)
    \/ /\ Renders(1, "render_bills_viewer")
       /\ \E sort_by \in BillSortOptions :
             render_bills_viewer(Router(1).arg, <<>>, sort_by)
    \/ /\ Renders(1, "render_questions_viewer")
       /\ \E body_type \in Bodies : render_questions_viewer(body_type, <<>>, "Status")
    \/ Renders(1, "render_ca_viewer") /\ render_ca_viewer
    \/ \E password \in PasswordInputs : Login(2, password)
    \/ Logout(2)
    \/ \E target_page \in AdminPages : AdminMenu(2, target_page)
    \/ /\ Renders(2, "render_manage_ca")
       /\ \E f \in CAForms({<<"F", "i">>}, {NoUpload}, {"ok"}) :
             RowBudget /\ CASubmit(2, f)
    \/ CAInsert(2)

\* The visitor does not leave a navigation button unused for ever.
SpecNav ==
    /\ Init /\ [][NextNav]_vars
    /\ \A target_page \in NavTargets : WF_vars(navigate(1, target_page))

\* ------------------------------------------------------------------- claims
\* What the fetch functions return for a table, over every legislative body
\* and with no search term.
Listed(t) ==
    CASE t = "bills" -> UNION {fetch_bills(b, <<>>) : b \in Bodies}
      [] t = "questions" -> UNION {fetch_questions(b, <<>>) : b \in Bodies}
      [] t = "current_affairs" -> fetch_current_affairs

\* Session s ends a script run that was about to execute a statement on
\* table t for the record id.
Executes(s, at, t, id) ==
    /\ pc[s] \in at
    /\ pc'[s] = "idle"
    /\ req[s].table_name = t
    /\ req[s].record_id = id

\* The ids AUTOINCREMENT has handed out for table t.
IssuedIds(t) == 1..(nextId[t] - 1)

C2_AbsentIdIsNotFound ==
    [][\A s \in Sessions : \A t \in Tables : \A id \in IssuedIds(t) :
          (/\ Executes(s, {"ud_delete", "ud_update", "ca_delete"}, t, id)
           /\ id \notin Ids(TableRows(t)))
          => (outcome'.result = "error_not_found" /\ UNCHANGED dbVars)
      ]_vars

\* The columns a status update must leave alone.
BillFrameColumns == {"id", "bill_code", "bill_name", "introduced_by", "ministry_code",
                     "legislative_body", "state_code", "votes_favour",
                     "votes_against", "approval_status", "is_money_bill",
                     "pdf_path", "introduced_date"}
QuestionFrameColumns == {"id", "question_code", "question_title", "introduced_by",
                         "ministry_code", "legislative_body", "state_code",
                         "q_type", "pdf_path", "introduced_date"}

\* C3: a status update of a stored bill or question changes only its status
\* fields: re-fetching the record returns the new status (and, for a bill,
\* the new approval result), every other column of the record is as before,
\* and every other record of every table is unchanged.
C3_UpdateChangesOnlyStatus ==
    [][\A s \in Sessions : \A t \in {"bills", "questions"} :
         \A id \in Ids(TableRows(t)) :
         \A new_status \in BillStatusOptions \cup QuestionStatusOptions :
         \A new_approval \in ApprovalOptions \cup {NoApproval} :
          (/\ Executes(s, {"ud_update"}, t, id)
           /\ req[s].new_status = new_status
           /\ req[s].new_approval = new_approval)
          => /\ {r \in Listed(t)' : r.id # id} = {r \in Listed(t) : r.id # id}
             /\ \A u \in Tables \ {t} : Listed(u)' = Listed(u)
             /\ Cardinality({r \in Listed(t)' : r.id = id}) = 1
             /\ \A old \in Listed(t) : \A r \in Listed(t)' :
                   (old.id = id /\ r.id = id) =>
                      /\ r.current_status = new_status
                      /\ t = "bills" => r.approval_result = new_approval
                      /\ \A c \in IF t = "bills" THEN BillFrameColumns
                                   ELSE QuestionFrameColumns : r[c] = old[c]
                      /\ r.ministry_name = old.ministry_name
                      /\ r.state_name = old.state_name
                      /\ DOMAIN r = DOMAIN old
      ]_vars

\* C3 witness: a stored bill and a stored question carry a status that only
\* an update can have given them, next to another stored record.
C3_Witness ==
    /\ \E b \in bills : b.current_status = "Passed" /\ b.approval_result = "Yes"
    /\ \E q \in questions : q.current_status = "Answered"

\* C4: every stored bill and question has a state_code if and only if its
\* legislative body is the State Assembly.
C4_StateCodeIffStateAssembly ==
    \A r \in bills \cup questions :
        (r.state_code # NULL) <=> (r.legislative_body = "State Assembly")

\* C4 witness: a State Assembly record with its state code is stored next to
\* a record of another body.
C4_Witness ==
    /\ \E r \in bills \cup questions :
          r.legislative_body = "State Assembly" /\ r.state_code # NULL
    /\ \E r \in bills \cup questions : r.legislative_body = "Lok Sabha"

\* C5: no stored bill of the Rajya Sabha is a money bill.
C5_NoRajyaSabhaMoneyBill ==
    \A b \in bills : ~(b.legislative_body = "Rajya Sabha" /\ b.is_money_bill)

\* C5 witness: a Rajya Sabha bill, created from a form whose money-bill value
\* was true, is stored and has had its status updated.
C5_Witness ==
    \E b \in bills :
        /\ b.legislative_body = "Rajya Sabha"
        /\ b.current_status = "Passed"
        /\ \E m \in bills : m.is_money_bill

\* C6: no two stored bills share a bill_code, no two stored questions share
\* a question_code, and no step changes the code of a stored record.
C6_CodesUniqueAndImmutable ==
    [][/\ \A a, b \in bills' : a.bill_code = b.bill_code => a = b
       /\ \A a, b \in questions' : a.question_code = b.question_code => a = b
       /\ \A a \in bills : \A b \in bills' : a.id = b.id => a.bill_code = b.bill_code
       /\ \A a \in questions : \A b \in questions' :
             a.id = b.id => a.question_code = b.question_code
      ]_vars

\* C6 witness: an INSERT of a bill whose code is already stored has just been
\* refused.
C6_Witness ==
    /\ outcome.result = "error_db"
    /\ bills # {}
    /\ questions = {}

\* The number a run of decimal digits spells.
DigitValue(c) == CHOOSE d \in 0..9 : DigitChar(d) = c
RECURSIVE StrToInt(_)
StrToInt(str) == IF str = <<>> THEN 0
                 ELSE 10 * StrToInt(SubSeq(str, 1, Len(str) - 1))
                      + DigitValue(str[Len(str)])

\* The code laid out as prefix "-" ministry code "-" four digits.
HasCodeForm(code, prefix, mcode) ==
    LET n == Len(code)
        p == Len(prefix)
        k == Len(mcode)
    IN  /\ n = p + 1 + k + 1 + 4
        /\ SubSeq(code, 1, p) = prefix
        /\ code[p + 1] = "-"
        /\ SubSeq(code, p + 2, p + 1 + k) = mcode
        /\ code[p + k + 2] = "-"
        /\ \A i \in (n - 3)..n : code[i] \in Digits
        /\ StrToInt(SubSeq(code, n - 3, n)) \in 1000..9999

\* C7: every code generated at creation is prefix-ministryCode-suffix with a
\* four-digit suffix in 1000..9999, the code of the selected ministry, and
\* as prefix the selected state's code for a State Assembly record, BL for
\* any other bill and QN for any other question.
C7_GeneratedCodeForm ==
    \A s \in Sessions :
        pc[s] \in {"bill_insert", "qn_insert"} =>
            LET f == req[s].form
                code == IF pc[s] = "bill_insert" THEN req[s].data.bill_code
                        ELSE req[s].data.question_code
                mcode == (CHOOSE m \in ministries : m.name = f.ministry).code
                prefix == IF f.body = "State Assembly"
                          THEN (CHOOSE st \in states : st.name = f.state).code
                          ELSE IF pc[s] = "bill_insert" THEN <<"B", "L">>
                               ELSE <<"Q", "N">>
            IN  HasCodeForm(code, prefix, mcode)

\* C7 witness: a State Assembly bill code with the largest suffix has been
\* generated.
C7_Witness ==
    \E s \in Sessions :
        /\ pc[s] = "bill_insert"
        /\ req[s].form.body = "State Assembly"
        /\ req[s].form.random_num = 9999

\* C8 (as claimed): a code, at the moment it is generated, differs from
\* every code stored in the table the record goes into.
C8_GeneratedCodeIsFresh ==
    [][\A s \in Sessions :
          /\ (pc[s] = "idle" /\ pc'[s] = "bill_insert")
                => req'[s].data.bill_code \notin BillCodes
          /\ (pc[s] = "idle" /\ pc'[s] = "qn_insert")
                => req'[s].data.question_code \notin QuestionCodes
      ]_vars

\* C9: when the INSERT of a new bill or question meets a stored code, the
\* run ends with the database error banner after exactly one INSERT, and the
\* stored rows are those from before.
C9_DuplicateInsertSurfaced ==
    [][\A s \in Sessions :
          (/\ \/ (pc[s] = "bill_insert" /\ req[s].data.bill_code \in BillCodes)
              \/ (pc[s] = "qn_insert" /\ req[s].data.question_code \in QuestionCodes)
           /\ (pc'[s] # pc[s] \/ req'[s] # req[s]))
          => /\ pc'[s] = "idle"
             /\ outcome' = [result |-> "error_db", inserts |-> 1]
             /\ UNCHANGED dbVars
      ]_vars

\* C9 witness: a run has ended with the database error after one INSERT.
C9_Witness ==
    /\ outcome = [result |-> "error_db", inserts |-> 1]
    /\ questions # {}

\* The ministry name a row is joined with.
MinistryNameOf(ministry_code) ==
    (CHOOSE m \in ministries : m.code = ministry_code).name

\* The case-folded term occurs in the case-folded field.
FoldedContains(search_term, field) ==
    IsSubstring(PyLower(search_term), PyLower(field))

\* C10 (as claimed): a listing of bills or questions under a non-empty
\* search term returns exactly the stored records of the requested body whose
\* code, name or title, or ministry name contains the term as a substring
\* after case folding.
C10_SearchIsFoldedSubstring ==
    [][(view' # view /\ view'.search_term # <<>>) =>
          Ids(view'.result) =
             IF view'.op = "bills"
             THEN Ids({b \in bills :
                        /\ b.legislative_body = view'.legislative_body
                        /\ \/ FoldedContains(view'.search_term, b.bill_code)
                           \/ FoldedContains(view'.search_term, b.bill_name)
                           \/ FoldedContains(view'.search_term,
                                             MinistryNameOf(b.ministry_code))})
             ELSE Ids({q \in questions :
                        /\ q.legislative_body = view'.legislative_body
                        /\ \/ FoldedContains(view'.search_term, q.question_code)
                           \/ FoldedContains(view'.search_term, q.question_title)
                           \/ FoldedContains(view'.search_term,
                                             MinistryNameOf(q.ministry_code))})
      ]_vars

\* The query holds nothing but blanks.
IsBlank(search_term) == \A i \in 1..Len(search_term) : search_term[i] = " "

\* C11 (as claimed): a listing under an empty query or a query made only of
\* whitespace returns every stored record of the selected legislative body,
\* the same result as the listing without a search term.
C11_BlankQueryListsAll ==
    [][(view' # view /\ IsBlank(view'.search_term)) =>
          IF view'.op = "bills"
          THEN /\ view'.result = fetch_bills(view'.legislative_body, <<>>)
               /\ Ids(view'.result) =
                     Ids({b \in bills :
                            b.legislative_body = view'.legislative_body})
          ELSE /\ view'.result = fetch_questions(view'.legislative_body, <<>>)
               /\ Ids(view'.result) =
                     Ids({q \in questions :
                            q.legislative_body = view'.legislative_body})
      ]_vars

\* C12 (as claimed): a suggestion lookup never returns more than 10
\* suggestions.
C12_AtMostTenSuggestions ==
    view.op = "suggest" => Len(view.result) <= 10

\* In the rows shown, every row of status first comes before every row of
\* status second.
ShownBefore(first, second) ==
    \A i, j \in 1..Len(view.shown) :
        (view.shown[i].current_status = first
            /\ view.shown[j].current_status = second) => i < j

\* C13: bills shown under the sort order 'Status' list every 'Passed' bill
\* before every 'Pending' bill and every 'Pending' bill before every
\* 'Not Passed' bill (and so every 'Passed' before every 'Not Passed').
C13_BillsStatusOrder ==
    (view.op = "bills_viewer" /\ view.sort_by = "Status") =>
        /\ ShownBefore("Passed", "Pending")
        /\ ShownBefore("Pending", "Not Passed")
        /\ ShownBefore("Passed", "Not Passed")

\* C13 witness: a 'Passed' bill created after a 'Pending' bill is shown
\* ahead of it.
C13_Witness ==
    /\ view.op = "bills_viewer"
    /\ view.sort_by = "Status"
    /\ Len(view.shown) = 2
    /\ view.shown[1].current_status = "Passed"
    /\ view.shown[2].current_status = "Pending"
    /\ view.shown[1].id > view.shown[2].id

\* C14 (as claimed): questions shown under the sort order 'Status' list every
\* 'Answered' question before every 'Not Answered' question.
C14_QuestionsStatusOrder ==
    (view.op = "questions_viewer" /\ view.sort_by = "Status") =>
        ShownBefore("Answered", "Not Answered")

\* No two rows of a metadata table share a code or a name.
MetaUnique(rows) ==
    \A a, b \in rows : (a.code = b.code \/ a.name = b.name) => a = b

\* C15: a ministry or state is stored with its code in upper case; an insert
\* whose upper-cased code or whose name is that of a stored row of the same
\* table ends with the duplicate error and leaves the table as it was; no
\* two stored ministries, and no two stored states, share a code or a name.
C15_MetadataInsert ==
    [][/\ \A r \in ministries' \cup states' : r.code = PyUpper(r.code)
       /\ MetaUnique(ministries') /\ MetaUnique(states')
       /\ \A s \in Sessions :
             /\ \A c \in MinistryCodeInputs \ {<<>>},
                   n \in MinistryNameInputs \ {<<>>} :
                   AddMinistry(s, c, n) =>
                      /\ ministries' \subseteq
                            ministries \cup {[code |-> PyUpper(c), name |-> n]}
                      /\ (PyUpper(c) \in Codes(ministries)
                             \/ n \in Names(ministries)) =>
                            (outcome'.result = "error_duplicate"
                               /\ ministries' = ministries)
             /\ \A c \in StateCodeInputs, n \in StateNameInputs :
                   AddState(s, c, n) =>
                      /\ states' \subseteq
                            states \cup {[code |-> PyUpper(c), name |-> n]}
                      /\ (PyUpper(c) \in Codes(states) \/ n \in Names(states)) =>
                            (outcome'.result = "error_duplicate"
                               /\ states' = states)
      ]_vars

\* C15 witness: a ministry typed in lower case is stored in upper case and an
\* insert has just been refused as a duplicate.
C15_Witness ==
    /\ outcome = [result |-> "error_duplicate", inserts |-> 1]
    /\ \E m \in ministries : m.code = <<"F", "N">>

\* Letters of the alphabets the model writes codes in.
Letters == UpperChars \cup {LowerOf[c] : c \in UpperChars}

\* C16 (as claimed): the code of every stored ministry and state is a string
\* of exactly two letters.
C16_TwoLetterCodes ==
    \A r \in ministries \cup states :
        Len(r.code) = 2 /\ \A i \in 1..Len(r.code) : r.code[i] \in Letters

\* The codes of a row refer to a stored ministry and, when set, a stored state.
RefersToMetadata(r, ms, sts) ==
    /\ r.ministry_code \in Codes(ms)
    /\ r.state_code # NULL => r.state_code \in Codes(sts)

\* C17: at the moment a bill or question row is written, its ministry_code is
\* the code of a stored ministry and its state_code, when not null, the code
\* of a stored state, whatever other sessions did since the form was
\* submitted.
C17_CodesReferToStoredMetadata ==
    [][\A r \in (bills' \ bills) \cup (questions' \ questions) :
          /\ RefersToMetadata(r, ministries, states)
          /\ RefersToMetadata(r, ministries', states')
      ]_vars

\* C17 witness: a State Assembly record is stored with both of its codes,
\* next to a second record.
C17_Witness ==
    /\ \E r \in bills \cup questions :
          /\ r.legislative_body = "State Assembly"
          /\ r.state_code \in Codes(states)
          /\ r.ministry_code \in Codes(ministries)
    /\ Cardinality(bills) + Cardinality(questions) = 2

\* C18 (as claimed): once a store operation has been left, by return or by
\* an error, the connection it opened is released: no connection is open
\* while no operation runs.
C18_ConnectionReleased ==
    conn.op = "none" => conn.open = 0

\* The form lacks its ministry, or the state a State Assembly record needs.
NothingSelected(f) ==
    \/ f.ministry = SelectMinistry
    \/ (f.body = "State Assembly" /\ f.state = SelectState)

\* C19: a bill or question creation with no ministry selected, or for a State
\* Assembly with no state selected, ends with the required-fields error, and
\* no row is inserted and no PDF file is created or modified.
C19_ValidationBeforeWrite ==
    [][\A s \in Sessions :
          /\ \A f \in UploadBillForms :
                (BillSubmit(s, f) /\ NothingSelected(f)) =>
                   /\ outcome'.result = "error_required"
                   /\ pc'[s] = "idle"
                   /\ UNCHANGED <<dbVars, files>>
          /\ \A f \in UploadQuestionForms :
                (QuestionSubmit(s, f) /\ NothingSelected(f)) =>
                   /\ outcome'.result = "error_required"
                   /\ pc'[s] = "idle"
                   /\ UNCHANGED <<dbVars, files>>
      ]_vars

\* C19 witness: a creation form submitted without its selection has been
\* rejected while a state and a ministry were there to select.
C19_Witness ==
    /\ outcome.result = "error_required"
    /\ states # {}
    /\ ministries # {}

\* The upload of form f fails after validation has passed.
WriteFailed(f) == f.pdf # NoUpload /\ f.write # "ok"

\* C20: when the write of the uploaded PDF fails, the creation of the bill,
\* question or current-affairs item ends with the file error and no row is
\* inserted; a creation goes on to its INSERT only with its file, if any,
\* written in full, and rows are inserted only by such creations.
C20_FileFailureAborts ==
    [][/\ \A s \in Sessions :
          /\ \A f \in UploadBillForms :
                (BillSubmit(s, f) /\ ~NothingSelected(f) /\ WriteFailed(f)) =>
                   (pc'[s] = "idle" /\ outcome'.result = "error_file"
                      /\ UNCHANGED dbVars)
          /\ \A f \in UploadQuestionForms :
                (QuestionSubmit(s, f) /\ ~NothingSelected(f) /\ WriteFailed(f)) =>
                   (pc'[s] = "idle" /\ outcome'.result = "error_file"
                      /\ UNCHANGED dbVars)
          /\ \A f \in UploadCAForms :
                (CASubmit(s, f) /\ WriteFailed(f)) =>
                   (pc'[s] = "idle" /\ outcome'.result = "error_file"
                      /\ UNCHANGED dbVars)
          /\ (pc[s] = "idle" /\ pc'[s] \in {"bill_insert", "qn_insert", "ca_insert"}
                 /\ req'[s].data.pdf_path # NULL) =>
                [path |-> req'[s].data.pdf_path, content |-> "pdf"] \in files'
       /\ \A r \in (bills' \ bills) \cup (questions' \ questions)
                                   \cup (affairs' \ affairs) :
             \E s \in Sessions :
                /\ pc[s] \in {"bill_insert", "qn_insert", "ca_insert"}
                /\ r.pdf_path = req[s].data.pdf_path
      ]_vars

\* C20 witness: a creation has been aborted on a failed file write that left
\* a partial file, and a record with its PDF is stored.
C20_Witness ==
    /\ outcome.result = "error_file"
    /\ \E f \in files : f.content = "partial"
    /\ \E r \in bills \cup questions \cup affairs : r.pdf_path # NULL

\* C21: the provider is called only for a path that is present and names a
\* readable file whose text has at least 100 characters; an absent path ends
\* with the no-document outcome, a shorter text with the too-short outcome,
\* a failing provider call with the provider-error outcome, and a summary is
\* shown in none of these cases.
C21_SummaryOutcomes ==
    view.op = "summary" =>
        /\ view.called =>
              (~view.no_document /\ view.readable /\ view.text_len >= 100)
        /\ view.no_document => view.result = "no_document"
        /\ (~view.no_document /\ view.readable /\ view.text_len < 100)
              => view.result = "too_short"
        /\ (view.called /\ view.provider # "ok") => view.result = "provider_error"
        /\ view.result = "summary" =>
              (view.called /\ view.provider = "ok" /\ ~view.no_document
                 /\ view.readable /\ view.text_len >= 100)

\* C21 witness: the provider was called for a stored document of exactly 100
\* characters and failed.
C21_Witness ==
    /\ view.op = "summary"
    /\ view.called
    /\ view.text_len = 100
    /\ view.result = "provider_error"
    /\ view.pdf_path \in {r.pdf_path : r \in affairs}

\* The session whose script run is rendering an admin page.
OnAdminPage(s) ==
    /\ session_state[s].authenticated
    /\ Router(s).render \in {"render_manage_metadata", "render_manage_data",
                              "render_manage_ca"}

\* C22: the tables and the stored files change only in a step of a session
\* that is authenticated and on an admin page; the authenticated flag turns
\* true only by a login with the configured admin password; after a logout
\* the flag is false and no admin page is rendered, whatever the page entry.
C22_AdminOnlyWhenAuthenticated ==
    [][
        /\ (dbVars' # dbVars \/ files' # files) =>
              \E s \in Sessions :
                  /\ OnAdminPage(s)
                  /\ \/ pc[s] # "idle"
                     \/ pc'[s] # "idle"
                     \/ ministries' # ministries
        /\ \A s \in Sessions :
              /\ pc'[s] # "idle" => OnAdminPage(s)
              /\ (~session_state[s].authenticated /\ session_state'[s].authenticated)
                    => /\ \E password \in PasswordInputs : Login(s, password)
                       /\ session_state'[s].password = "admin"
              /\ Logout(s) =>
                    /\ ~session_state'[s].authenticated
                    /\ session_state'[s].page = session_state[s].page
                    /\ ~OnAdminPage(s)'
       ]_vars

\* C22 witness: a session that logged out while its page entry names an
\* admin page, after rows were stored.
C22_Witness ==
    \E s \in Sessions :
        /\ ~session_state[s].authenticated
        /\ session_state[s].page = "manage_data"
        /\ bills # {}
        /\ affairs # {}

\* code starts with the three characters of prefix.
StartsWith(code, prefix) == Len(code) >= 3 /\ SubSeq(code, 1, 3) = prefix

\* C23: a stored bill's code starts with 'BL-' exactly when the bill is of
\* the Lok Sabha or the Rajya Sabha, and a stored question's code starts with
\* 'QN-' exactly when the question is of the Lok Sabha or the Rajya Sabha,
\* whatever states the admin has created.
C23_PrefixIffCentralBody ==
    /\ \A b \in bills :
          StartsWith(b.bill_code, <<"B", "L", "-">>)
              <=> b.legislative_body \in {"Lok Sabha", "Rajya Sabha"}
    /\ \A q \in questions :
          StartsWith(q.question_code, <<"Q", "N", "-">>)
              <=> q.legislative_body \in {"Lok Sabha", "Rajya Sabha"}

\* C24: every suggestion the Bills viewer shows for a query of two or more
\* characters is the code, the name or the ministry name of a stored bill of
\* the viewer's body that the query matches, and a selected suggestion
\* lists at least one bill.
C24_SuggestionsComeFromBills ==
    (view.op = "bills_did_you_mean" /\ Len(view.raw_search_query) >= 2) =>
        /\ \A i \in 1..Len(view.suggestions) :
              \E b \in fetch_bills(view.legislative_body, view.raw_search_query) :
                  view.suggestions[i] \in {b.bill_code, b.bill_name, b.ministry_name}
        /\ view.selected_suggestion # <<>> => view.shown # {}

\* C25: the file a stored record's pdf_path names is left as it is by every
\* step that creates, or fails to create, another record.
C25_StoredPdfNeverOverwritten ==
    [][\A r \in bills \cup questions \cup affairs :
          r.pdf_path # NULL =>
              \A f \in files : f.path = r.pdf_path => f \in files'
      ]_vars

\* The router renders the bills viewer of legislative_body for the visitor.
BillsViewerShown(legislative_body) ==
    /\ ~session_state[1].authenticated
    /\ Router(1) = [render |-> "render_bills_viewer", arg |-> legislative_body]

\* C26: a visitor starting on the home page and using the navigation gets
\* to the bills viewer of each of the three bodies, to the questions viewer
\* and to the current-affairs viewer.
C26_EveryViewerReached ==
    /\ <>BillsViewerShown("Lok Sabha")
    /\ <>BillsViewerShown("Rajya Sabha")
    /\ <>BillsViewerShown("State Assembly")
    /\ <>(Router(1).render = "render_questions_viewer")
    /\ <>(Router(1).render = "render_ca_viewer")

=============================================================================
